---- MODULE Spec2Model ----
(***************************************************************************)
(* Loan-application conversation workflow (src/src/workflow/graph.py):     *)
(* the session store, process_message, the five agent nodes, the router    *)
(* route_master_agent and the graph loop that connects them.               *)
(*                                                                         *)
(* Amounts are in thousands of rupees, EMIs and salaries in rupees,        *)
(* interest rates in basis points per year.                                *)
(***************************************************************************)
EXTENDS Integers, Sequences, FiniteSets, TLC

VARIABLES
    sessions,    \* LoanApplicationWorkflow.sessions: session id -> record
    calls,       \* one frame per caller of process_message
    nmsgs,       \* number of process_message calls made so far
    documents    \* number of sanction letters written by generate_sanction_letter

vars == <<sessions, calls, nmsgs, documents>>

----------------------------------------------------------------------------
(* Bounds of the model *)

MaxMsgs == 4

(* langgraph's default recursion limit, used by workflow.invoke(state) *)
RecursionLimit == 25

SessionIds == {"s1"}
(* a session id create_session never hands out *)
UnknownIds == {"s0"}
AllCallers == {"c1", "c2"}
MainCallers == {"c1"}

RequestedAmounts == {400, 600, 900}

----------------------------------------------------------------------------
(* Optional values: Python None is <<>>, a present value v is <<v>>.       *)
(* String-valued fields use the string "None".                             *)

None == <<>>
Some(v) == <<v>>
Val(o) == o[1]

(* Python truthiness of an optional number and of an optional string *)
Truthy(o) == o # None /\ Val(o) # 0
TruthyStr(s) == s # "None" /\ s # ""

----------------------------------------------------------------------------
(* Stage enumeration *)

Stages == <<"greeting", "needs_assessment", "sales_negotiation", "verification",
            "underwriting", "document_upload", "sanction_generation", "closure">>

StageSet == {Stages[i] : i \in 1..Len(Stages)}

Rank(s) == CHOOSE i \in 1..Len(Stages) : Stages[i] = s

(* a move from stage a to stage b that the stage ordering permits *)
NoRegress(a, b) ==
    \/ Rank(b) >= Rank(a)
    \/ a = "document_upload" /\ b = "underwriting"

Delegations == {"delegate_to_sales", "delegate_to_verification",
                "delegate_to_underwriting", "delegate_to_sanction"}

ClosedStatuses == {"approved", "rejected", "abandoned"}

Workers == {"sales_agent", "verification_agent", "underwriting_agent", "sanction_agent"}
Nodes == {"master_agent"} \cup Workers

----------------------------------------------------------------------------
(* Customer data (data/customers.json): credit score and pre-approved      *)
(* limit as the scenarios describe them; salary, existing EMI and segment  *)
(* are sample values.  CUST999 is an id the CRM does not know.             *)

CustomerIds == {"CUST001", "CUST002", "CUST003", "CUST999"}

get_customer_by_id(cid) ==
    CASE cid = "CUST001" -> [found |-> TRUE, customer_id |-> cid, credit_score |-> 800,
                             pre_approved_limit |-> 500, monthly_salary |-> 120000,
                             existing_emi |-> 0, customer_segment |-> "premium"]
      [] cid = "CUST002" -> [found |-> TRUE, customer_id |-> cid, credit_score |-> 750,
                             pre_approved_limit |-> 400, monthly_salary |-> 85000,
                             existing_emi |-> 15000, customer_segment |-> "prime"]
      [] cid = "CUST003" -> [found |-> TRUE, customer_id |-> cid, credit_score |-> 680,
                             pre_approved_limit |-> 200, monthly_salary |-> 45000,
                             existing_emi |-> 8000, customer_segment |-> "standard"]
      [] OTHER -> [found |-> FALSE, customer_id |-> cid, credit_score |-> 0,
                   pre_approved_limit |-> 0, monthly_salary |-> 0,
                   existing_emi |-> 0, customer_segment |-> "none"]

calculate_total_existing_emi(cid) == get_customer_by_id(cid).existing_emi

----------------------------------------------------------------------------
(* EMI arithmetic: the annuity formula, evaluated for a principal of       *)
(* 1,000,000 at the rates and tenures in use and scaled to the principal.  *)

EmiPerMillion(rate_bp, tenure) ==
    LET row == CASE rate_bp = 900  -> <<87451, 45685, 31800>>
                 [] rate_bp = 1000 -> <<87916, 46145, 32267>>
                 [] rate_bp = 1100 -> <<88382, 46608, 32739>>
                 [] rate_bp = 1200 -> <<88849, 47073, 33214>>
                 [] rate_bp = 1300 -> <<89317, 47542, 33694>>
                 [] rate_bp = 1400 -> <<89787, 48013, 34178>>
                 [] rate_bp = 1500 -> <<90258, 48487, 34665>>
                 [] OTHER          -> <<90731, 48963, 35157>>
    IN row[tenure \div 12]

calculate_emi(principal, rate_bp, tenure) ==
    (principal * EmiPerMillion(rate_bp, tenure)) \div 1000

----------------------------------------------------------------------------
(* The application record (src/workflow/state.py) *)

create_initial_state(sid, cid) ==
    [session_id |-> sid,
     customer_id |-> cid,
     conversation_history |-> <<>>,
     current_stage |-> "greeting",
     next_action |-> "None",
     active_agent |-> "master",
     application_status |-> "in_progress",
     requested_amount |-> None,
     recommended_offers |-> <<>>,
     tenure_months |-> None,
     interest_rate |-> None,
     monthly_emi |-> None,
     credit_score |-> None,
     underwriting_decision |-> "None",
     approved_amount |-> None,
     conditional_requirements |-> <<>>,
     rejection_reason |-> "None",
     sanction_letter_url |-> "None",
     sanction_letter_ref_no |-> "None",
     otp_sent |-> FALSE,
     salary_slip_uploaded |-> FALSE,
     monthly_salary |-> None,
     last_error |-> "None"]

(* update_state(state, updates): a copy of state with the given keys replaced *)
update_state(state, updates) ==
    [k \in DOMAIN state |-> IF k \in DOMAIN updates THEN updates[k] ELSE state[k]]

(* add_message(state, role, content, agent): a copy with one entry appended *)
add_message(state, role, content, agent) ==
    [state EXCEPT !.conversation_history =
        Append(@, [role |-> role, agent |-> agent, content |-> content])]

----------------------------------------------------------------------------
(* Credit tools (src/tools/credit_tools.py) *)

fetch_credit_score(cid) ==
    LET customer == get_customer_by_id(cid) IN
    IF ~customer.found
    THEN [success |-> FALSE, credit_score |-> 0]
    ELSE [success |-> TRUE, credit_score |-> customer.credit_score]

(* mutant: within the limit, the whole pre-approved limit is approved *)
check_eligibility_ApproveLimit(cid, requested_amount, monthly_salary) ==
    LET customer == get_customer_by_id(cid)
        credit_score == customer.credit_score
        pre_approved_limit == customer.pre_approved_limit
        emi == calculate_emi(requested_amount, 1200, 36)
        total_emi == emi + calculate_total_existing_emi(cid)
    IN
    IF ~customer.found
    THEN [decision |-> "rejected", reason |-> "customer_not_found",
          approved_amount |-> None, conditions |-> <<>>, recommendations |-> 0]
    ELSE IF credit_score < 700
    THEN [decision |-> "rejected", reason |-> "credit_score_below_minimum",
          approved_amount |-> None, conditions |-> <<>>, recommendations |-> 3]
    ELSE IF requested_amount <= pre_approved_limit
    THEN [decision |-> "approved", reason |-> "within_pre_approved_limit",
          approved_amount |-> Some(pre_approved_limit), conditions |-> <<>>,
          recommendations |-> 0]
    ELSE IF requested_amount > 2 * pre_approved_limit
    THEN [decision |-> "rejected", reason |-> "exceeds_maximum_eligible_limit",
          approved_amount |-> None, conditions |-> <<>>, recommendations |-> 2]
    ELSE IF monthly_salary = None
    THEN [decision |-> "needs_documents", reason |-> "salary_slip_required",
          approved_amount |-> None, conditions |-> <<"salary_slip_upload">>,
          recommendations |-> 0]
    ELSE IF 2 * total_emi <= Val(monthly_salary)
    THEN [decision |-> "approved", reason |-> "emi_ratio_within_limits",
          approved_amount |-> Some(requested_amount), conditions |-> <<>>,
          recommendations |-> 0]
    ELSE [decision |-> "rejected", reason |-> "emi_ratio_exceeds_limit",
          approved_amount |-> None, conditions |-> <<>>, recommendations |-> 3]

(* mutant: the minimum credit score is 650 *)
check_eligibility_Minimum650(cid, requested_amount, monthly_salary) ==
    LET customer == get_customer_by_id(cid)
        credit_score == customer.credit_score
        pre_approved_limit == customer.pre_approved_limit
        emi == calculate_emi(requested_amount, 1200, 36)
        total_emi == emi + calculate_total_existing_emi(cid)
    IN
    IF ~customer.found
    THEN [decision |-> "rejected", reason |-> "customer_not_found",
          approved_amount |-> None, conditions |-> <<>>, recommendations |-> 0]
    ELSE IF credit_score < 650
    THEN [decision |-> "rejected", reason |-> "credit_score_below_minimum",
          approved_amount |-> None, conditions |-> <<>>, recommendations |-> 3]
    ELSE IF requested_amount <= pre_approved_limit
    THEN [decision |-> "approved", reason |-> "within_pre_approved_limit",
          approved_amount |-> Some(requested_amount), conditions |-> <<>>,
          recommendations |-> 0]
    ELSE IF requested_amount > 2 * pre_approved_limit
    THEN [decision |-> "rejected", reason |-> "exceeds_maximum_eligible_limit",
          approved_amount |-> None, conditions |-> <<>>, recommendations |-> 2]
    ELSE IF monthly_salary = None
    THEN [decision |-> "needs_documents", reason |-> "salary_slip_required",
          approved_amount |-> None, conditions |-> <<"salary_slip_upload">>,
          recommendations |-> 0]
    ELSE IF 2 * total_emi <= Val(monthly_salary)
    THEN [decision |-> "approved", reason |-> "emi_ratio_within_limits",
          approved_amount |-> Some(requested_amount), conditions |-> <<>>,
          recommendations |-> 0]
    ELSE [decision |-> "rejected", reason |-> "emi_ratio_exceeds_limit",
          approved_amount |-> None, conditions |-> <<>>, recommendations |-> 3]

(* mutant: the ceiling of twice the pre-approved limit is not applied *)
check_eligibility_NoCeiling(cid, requested_amount, monthly_salary) ==
    LET customer == get_customer_by_id(cid)
        credit_score == customer.credit_score
        pre_approved_limit == customer.pre_approved_limit
        emi == calculate_emi(requested_amount, 1200, 36)
        total_emi == emi + calculate_total_existing_emi(cid)
    IN
    IF ~customer.found
    THEN [decision |-> "rejected", reason |-> "customer_not_found",
          approved_amount |-> None, conditions |-> <<>>, recommendations |-> 0]
    ELSE IF credit_score < 700
    THEN [decision |-> "rejected", reason |-> "credit_score_below_minimum",
          approved_amount |-> None, conditions |-> <<>>, recommendations |-> 3]
    ELSE IF requested_amount <= pre_approved_limit
    THEN [decision |-> "approved", reason |-> "within_pre_approved_limit",
          approved_amount |-> Some(requested_amount), conditions |-> <<>>,
          recommendations |-> 0]
    ELSE IF monthly_salary = None
    THEN [decision |-> "needs_documents", reason |-> "salary_slip_required",
          approved_amount |-> None, conditions |-> <<"salary_slip_upload">>,
          recommendations |-> 0]
    ELSE IF 2 * total_emi <= Val(monthly_salary)
    THEN [decision |-> "approved", reason |-> "emi_ratio_within_limits",
          approved_amount |-> Some(requested_amount), conditions |-> <<>>,
          recommendations |-> 0]
    ELSE [decision |-> "rejected", reason |-> "emi_ratio_exceeds_limit",
          approved_amount |-> None, conditions |-> <<>>, recommendations |-> 3]

(* mutant: the EMI ratio leaves the existing EMIs out *)
check_eligibility_IgnoreExistingEmi(cid, requested_amount, monthly_salary) ==
    LET customer == get_customer_by_id(cid)
        credit_score == customer.credit_score
        pre_approved_limit == customer.pre_approved_limit
        emi == calculate_emi(requested_amount, 1200, 36)
    IN
    IF ~customer.found
    THEN [decision |-> "rejected", reason |-> "customer_not_found",
          approved_amount |-> None, conditions |-> <<>>, recommendations |-> 0]
    ELSE IF credit_score < 700
    THEN [decision |-> "rejected", reason |-> "credit_score_below_minimum",
          approved_amount |-> None, conditions |-> <<>>, recommendations |-> 3]
    ELSE IF requested_amount <= pre_approved_limit
    THEN [decision |-> "approved", reason |-> "within_pre_approved_limit",
          approved_amount |-> Some(requested_amount), conditions |-> <<>>,
          recommendations |-> 0]
    ELSE IF requested_amount > 2 * pre_approved_limit
    THEN [decision |-> "rejected", reason |-> "exceeds_maximum_eligible_limit",
          approved_amount |-> None, conditions |-> <<>>, recommendations |-> 2]
    ELSE IF monthly_salary = None
    THEN [decision |-> "needs_documents", reason |-> "salary_slip_required",
          approved_amount |-> None, conditions |-> <<"salary_slip_upload">>,
          recommendations |-> 0]
    ELSE IF 2 * emi <= Val(monthly_salary)
    THEN [decision |-> "approved", reason |-> "emi_ratio_within_limits",
          approved_amount |-> Some(requested_amount), conditions |-> <<>>,
          recommendations |-> 0]
    ELSE [decision |-> "rejected", reason |-> "emi_ratio_exceeds_limit",
          approved_amount |-> None, conditions |-> <<>>, recommendations |-> 3]

(* mutant: the salary slip is asked for before the pre-approved limit is looked at *)
check_eligibility_SalaryFirst(cid, requested_amount, monthly_salary) ==
    LET customer == get_customer_by_id(cid)
        credit_score == customer.credit_score
        pre_approved_limit == customer.pre_approved_limit
        emi == calculate_emi(requested_amount, 1200, 36)
        total_emi == emi + calculate_total_existing_emi(cid)
    IN
    IF ~customer.found
    THEN [decision |-> "rejected", reason |-> "customer_not_found",
          approved_amount |-> None, conditions |-> <<>>, recommendations |-> 0]
    ELSE IF credit_score < 700
    THEN [decision |-> "rejected", reason |-> "credit_score_below_minimum",
          approved_amount |-> None, conditions |-> <<>>, recommendations |-> 3]
    ELSE IF monthly_salary = None
    THEN [decision |-> "needs_documents", reason |-> "salary_slip_required",
          approved_amount |-> None, conditions |-> <<"salary_slip_upload">>,
          recommendations |-> 0]
    ELSE IF requested_amount <= pre_approved_limit
    THEN [decision |-> "approved", reason |-> "within_pre_approved_limit",
          approved_amount |-> Some(requested_amount), conditions |-> <<>>,
          recommendations |-> 0]
    ELSE IF requested_amount > 2 * pre_approved_limit
    THEN [decision |-> "rejected", reason |-> "exceeds_maximum_eligible_limit",
          approved_amount |-> None, conditions |-> <<>>, recommendations |-> 2]
    ELSE IF 2 * total_emi <= Val(monthly_salary)
    THEN [decision |-> "approved", reason |-> "emi_ratio_within_limits",
          approved_amount |-> Some(requested_amount), conditions |-> <<>>,
          recommendations |-> 0]
    ELSE [decision |-> "rejected", reason |-> "emi_ratio_exceeds_limit",
          approved_amount |-> None, conditions |-> <<>>, recommendations |-> 3]

(* monthly_salary is None or Some(rupees) *)
check_eligibility(cid, requested_amount, monthly_salary) ==
    LET customer == get_customer_by_id(cid)
        credit_score == customer.credit_score
        pre_approved_limit == customer.pre_approved_limit
        emi == calculate_emi(requested_amount, 1200, 36)
        total_emi == emi + calculate_total_existing_emi(cid)
    IN
    IF ~customer.found
    THEN [decision |-> "rejected", reason |-> "customer_not_found",
          approved_amount |-> None, conditions |-> <<>>, recommendations |-> 0]
    ELSE IF credit_score < 700
    THEN [decision |-> "rejected", reason |-> "credit_score_below_minimum",
          approved_amount |-> None, conditions |-> <<>>, recommendations |-> 3]
    ELSE IF requested_amount <= pre_approved_limit
    THEN [decision |-> "approved", reason |-> "within_pre_approved_limit",
          approved_amount |-> Some(requested_amount), conditions |-> <<>>,
          recommendations |-> 0]
    ELSE IF requested_amount > 2 * pre_approved_limit
    THEN [decision |-> "rejected", reason |-> "exceeds_maximum_eligible_limit",
          approved_amount |-> None, conditions |-> <<>>, recommendations |-> 2]
    ELSE IF monthly_salary = None
    THEN [decision |-> "needs_documents", reason |-> "salary_slip_required",
          approved_amount |-> None, conditions |-> <<"salary_slip_upload">>,
          recommendations |-> 0]
    \* total_emi / monthly_salary <= 0.50
    ELSE IF 2 * total_emi <= Val(monthly_salary)
    THEN [decision |-> "approved", reason |-> "emi_ratio_within_limits",
          approved_amount |-> Some(requested_amount), conditions |-> <<>>,
          recommendations |-> 0]
    ELSE [decision |-> "rejected", reason |-> "emi_ratio_exceeds_limit",
          approved_amount |-> None, conditions |-> <<>>, recommendations |-> 3]

----------------------------------------------------------------------------
(* Offer generation (src/tools/calculation_tools.py) *)

final_rate(cid) ==
    LET customer == get_customer_by_id(cid)
        segment == customer.customer_segment
        credit_score == customer.credit_score
        base_rate == IF segment = "premium" THEN 1000
                     ELSE IF segment = "prime" THEN 1100
                     ELSE IF segment = "preferred" THEN 1200
                     ELSE 1400
        rate_adjustment == IF credit_score >= 800 THEN -100
                           ELSE IF credit_score >= 750 THEN 0
                           ELSE IF credit_score >= 700 THEN 100
                           ELSE 200
    IN base_rate + rate_adjustment

generate_loan_offers(cid, requested_amount) ==
    IF ~get_customer_by_id(cid).found THEN <<>>
    ELSE [i \in 1..3 |->
            [amount |-> requested_amount,
             tenure_months |-> 12 * i,
             interest_rate |-> final_rate(cid),
             monthly_emi |-> calculate_emi(requested_amount, final_rate(cid), 12 * i)]]

----------------------------------------------------------------------------
(* Sales agent (src/agents/sales_agent.py) *)

(* mutant: the first offer is the recommended one *)
process_sales_FirstOffer(state, requested_amount) ==
    LET cid == state.customer_id
        offers == generate_loan_offers(cid, requested_amount)
        failure(e) == [success |-> FALSE, error |-> e, offers |-> <<>>,
                       presentation |-> "None", recommended_offer |-> <<>>]
    IN
    IF ~TruthyStr(cid) THEN failure("Customer ID not available")
    ELSE IF ~get_customer_by_id(cid).found THEN failure("Customer not found")
    ELSE [success |-> TRUE, error |-> "None", offers |-> offers,
          presentation |-> "sales_presentation",
          recommended_offer |-> offers[1]]

process_sales(state, requested_amount) ==
    LET cid == state.customer_id
        offers == generate_loan_offers(cid, requested_amount)
        failure(e) == [success |-> FALSE, error |-> e, offers |-> <<>>,
                       presentation |-> "None", recommended_offer |-> <<>>]
    IN
    IF ~TruthyStr(cid) THEN failure("Customer ID not available")
    ELSE IF ~get_customer_by_id(cid).found THEN failure("Customer not found")
    ELSE [success |-> TRUE, error |-> "None", offers |-> offers,
          presentation |-> "sales_presentation",
          recommended_offer |-> IF Len(offers) > 1 THEN offers[2] ELSE offers[1]]

----------------------------------------------------------------------------
(* Underwriting agent (src/agents/underwriting_agent.py) *)

(* mutant: the salary is handed to the eligibility check whether or not a *)
(* salary slip was uploaded                                              *)
process_underwriting_UnverifiedSalary(state) ==
    LET cid == state.customer_id
        requested_amount == state.requested_amount
        credit_result == fetch_credit_score(cid)
        customer == get_customer_by_id(cid)
        monthly_salary == IF Truthy(state.monthly_salary)
                          THEN state.monthly_salary
                          ELSE Some(customer.monthly_salary)
        eligibility == check_eligibility(cid, Val(requested_amount), monthly_salary)
        failure(e) == [success |-> FALSE, error |-> e, decision |-> "None",
                       credit_score |-> None, message |-> "None",
                       approved_amount |-> None, conditions |-> <<>>,
                       reason |-> "None", recommendations |-> 0]
    IN
    IF ~TruthyStr(cid) \/ ~Truthy(requested_amount)
    THEN failure("Missing customer ID or requested amount")
    ELSE IF ~credit_result.success
    THEN failure("Unable to fetch credit score")
    ELSE [success |-> TRUE, error |-> "None",
          decision |-> eligibility.decision,
          credit_score |-> Some(credit_result.credit_score),
          message |-> "underwriting_" \o eligibility.decision,
          approved_amount |-> eligibility.approved_amount,
          conditions |-> eligibility.conditions,
          reason |-> eligibility.reason,
          recommendations |-> eligibility.recommendations]

process_underwriting(state) ==
    LET cid == state.customer_id
        requested_amount == state.requested_amount
        credit_result == fetch_credit_score(cid)
        customer == get_customer_by_id(cid)
        monthly_salary == IF Truthy(state.monthly_salary)
                          THEN state.monthly_salary
                          ELSE Some(customer.monthly_salary)
        eligibility == check_eligibility(cid, Val(requested_amount),
                           IF state.salary_slip_uploaded THEN monthly_salary ELSE None)
        failure(e) == [success |-> FALSE, error |-> e, decision |-> "None",
                       credit_score |-> None, message |-> "None",
                       approved_amount |-> None, conditions |-> <<>>,
                       reason |-> "None", recommendations |-> 0]
    IN
    IF ~TruthyStr(cid) \/ ~Truthy(requested_amount)
    THEN failure("Missing customer ID or requested amount")
    ELSE IF ~credit_result.success
    THEN failure("Unable to fetch credit score")
    ELSE [success |-> TRUE, error |-> "None",
          decision |-> eligibility.decision,
          credit_score |-> Some(credit_result.credit_score),
          message |-> "underwriting_" \o eligibility.decision,
          approved_amount |-> eligibility.approved_amount,
          conditions |-> eligibility.conditions,
          reason |-> eligibility.reason,
          recommendations |-> eligibility.recommendations]

----------------------------------------------------------------------------
(* Sanction agent (src/agents/sanction_agent.py, src/tools/document_tools.py) *)

(* mutant: the required-field test forgets approved_amount *)
SanctionFieldsPresent_NoAmount(state) ==
    /\ TruthyStr(state.customer_id)
    /\ Truthy(state.tenure_months)
    /\ Truthy(state.interest_rate)
    /\ Truthy(state.monthly_emi)

(* the required fields of generate_sanction: all([...]) *)
SanctionFieldsPresent(state) ==
    /\ TruthyStr(state.customer_id)
    /\ Truthy(state.approved_amount)
    /\ Truthy(state.tenure_months)
    /\ Truthy(state.interest_rate)
    /\ Truthy(state.monthly_emi)

(* generate_sanction_letter: serial numbers the file written (its timestamp) *)
generate_sanction_letter(cid, serial) ==
    IF ~get_customer_by_id(cid).found
    THEN [success |-> FALSE, reference_number |-> "None", file_path |-> "None"]
    ELSE [success |-> TRUE,
          reference_number |-> "SL/" \o cid,
          file_path |-> "sanction_letter_" \o cid \o "_" \o ToString(serial)]

get_document_download_url(filepath) == "/api/documents/download/" \o filepath

generate_sanction(state, serial) ==
    LET result == generate_sanction_letter(state.customer_id, serial)
        failure(e) == [success |-> FALSE, error |-> e, generated |-> FALSE,
                       sanction_letter_url |-> "None", reference_number |-> "None",
                       message |-> "None"]
    IN
    IF ~SanctionFieldsPresent(state)
    THEN failure("Missing required information for sanction letter")
    ELSE IF ~result.success
    THEN failure("Failed to generate sanction letter")
    ELSE [success |-> TRUE, error |-> "None", generated |-> TRUE,
          sanction_letter_url |-> get_document_download_url(result.file_path),
          reference_number |-> result.reference_number,
          message |-> "sanction_message"]

----------------------------------------------------------------------------
(* Master and verification agents (src/agents/master_agent.py,             *)
(* src/agents/verification_agent.py): their results, as the nodes use them *)

Last(seq) == seq[Len(seq)]

(* master_agent.process_message(state, user_message): a reply, a stage that *)
(* does not regress, and either no routing signal or one delegation         *)
MasterResults(state) ==
    {[response |-> "master_reply", new_stage |-> g, next_action |-> a] :
        g \in {x \in StageSet : NoRegress(state.current_stage, x)},
        a \in {"None"} \cup Delegations}

(* master_agent_node consults the master agent only for a trailing user message *)
MasterInputs(state) ==
    IF state.conversation_history # <<>>
       /\ Last(state.conversation_history).role = "user"
    THEN MasterResults(state)
    ELSE {[response |-> "None", new_stage |-> state.current_stage,
           next_action |-> state.next_action]}

(* verification_agent.start_verification(state) *)
start_verification(state, ok) ==
    IF ok
    THEN [success |-> TRUE, message |-> "verification_started", error |-> "None"]
    ELSE [success |-> FALSE, message |-> "None", error |-> "Verification failed"]

----------------------------------------------------------------------------
(* Agent nodes (src/workflow/graph.py) *)

(* mutant: the master node starts a new history holding only its reply *)
master_agent_node_NewHistory(state, result) ==
    IF state.conversation_history # <<>>
    THEN IF Last(state.conversation_history).role = "user"
         THEN update_state(state,
                  [conversation_history |->
                       <<[role |-> "assistant", agent |-> "master",
                          content |-> result.response]>>,
                   current_stage |-> result.new_stage,
                   next_action |-> result.next_action,
                   active_agent |-> "master"])
         ELSE state
    ELSE add_message(state, "assistant", "greeting", "master")

(* mutant: re-entered after an assistant entry, the master adds a closing remark *)
master_agent_node_ClosingRemark(state, result) ==
    IF state.conversation_history # <<>>
    THEN IF Last(state.conversation_history).role = "user"
         THEN update_state(
                  add_message(state, "assistant", result.response, "master"),
                  [current_stage |-> result.new_stage,
                   next_action |-> result.next_action,
                   active_agent |-> "master"])
         ELSE add_message(state, "assistant", "closing_remark", "master")
    ELSE add_message(state, "assistant", "greeting", "master")

master_agent_node(state, result) ==
    IF state.conversation_history # <<>>
    THEN IF Last(state.conversation_history).role = "user"
         THEN update_state(
                  add_message(state, "assistant", result.response, "master"),
                  [current_stage |-> result.new_stage,
                   next_action |-> result.next_action,
                   active_agent |-> "master"])
         ELSE state
    ELSE add_message(state, "assistant", "greeting", "master")

(* mutant: a missing requested_amount is reported as an error *)
sales_agent_node_NoAmountError(state) ==
    LET requested_amount == state.requested_amount
        result == process_sales(state, Val(requested_amount))
        recommended_offer == result.recommended_offer
    IN
    IF ~Truthy(requested_amount)
    THEN update_state(state, [active_agent |-> "master", next_action |-> "None",
                              last_error |-> "Requested amount not available"])
    ELSE IF result.success
    THEN update_state(
             add_message(state, "assistant", result.presentation, "sales"),
             [recommended_offers |-> result.offers,
              tenure_months |-> Some(recommended_offer.tenure_months),
              interest_rate |-> Some(recommended_offer.interest_rate),
              monthly_emi |-> Some(recommended_offer.monthly_emi),
              active_agent |-> "master",
              next_action |-> "None"])
    ELSE update_state(state, [active_agent |-> "master",
                              next_action |-> "None",
                              last_error |-> result.error])

(* mutant: the failure branch also tells the user, in the history *)
sales_agent_node_FailureMessage(state) ==
    LET requested_amount == state.requested_amount
        result == process_sales(state, Val(requested_amount))
        recommended_offer == result.recommended_offer
    IN
    IF ~Truthy(requested_amount)
    THEN update_state(state, [active_agent |-> "master", next_action |-> "None"])
    ELSE IF result.success
    THEN update_state(
             add_message(state, "assistant", result.presentation, "sales"),
             [recommended_offers |-> result.offers,
              tenure_months |-> Some(recommended_offer.tenure_months),
              interest_rate |-> Some(recommended_offer.interest_rate),
              monthly_emi |-> Some(recommended_offer.monthly_emi),
              active_agent |-> "master",
              next_action |-> "None"])
    ELSE update_state(add_message(state, "assistant", result.error, "sales"),
                      [active_agent |-> "master",
                       next_action |-> "None",
                       last_error |-> result.error])

sales_agent_node(state) ==
    LET requested_amount == state.requested_amount
        result == process_sales(state, Val(requested_amount))
        recommended_offer == result.recommended_offer
    IN
    IF ~Truthy(requested_amount)
    THEN update_state(state, [active_agent |-> "master", next_action |-> "None"])
    ELSE IF result.success
    THEN update_state(
             add_message(state, "assistant", result.presentation, "sales"),
             [recommended_offers |-> result.offers,
              tenure_months |-> Some(recommended_offer.tenure_months),
              interest_rate |-> Some(recommended_offer.interest_rate),
              monthly_emi |-> Some(recommended_offer.monthly_emi),
              active_agent |-> "master",
              next_action |-> "None"])
    ELSE update_state(state, [active_agent |-> "master",
                              next_action |-> "None",
                              last_error |-> result.error])

verification_agent_node(state, ok) ==
    LET result == start_verification(state, ok)
        started == update_state(
                       add_message(state, "assistant", result.message, "verification"),
                       [active_agent |-> "master", next_action |-> "None"])
    IN
    IF result.success
    THEN IF TruthyStr(state.customer_id)
         THEN update_state(
                  add_message(started, "assistant", "otp_sent", "verification"),
                  [otp_sent |-> TRUE])
         ELSE started
    ELSE update_state(state, [active_agent |-> "master",
                              last_error |-> result.error])

(* mutant: every decision other than approved closes the application as rejected *)
underwriting_agent_node_RejectPending(state) ==
    LET result == process_underwriting(state)
        assessed == update_state(
                        add_message(state, "assistant", result.message, "underwriting"),
                        [credit_score |-> result.credit_score,
                         underwriting_decision |-> result.decision,
                         approved_amount |-> result.approved_amount,
                         conditional_requirements |-> result.conditions,
                         rejection_reason |-> result.reason,
                         active_agent |-> "master",
                         next_action |-> "None"])
    IN
    IF result.success
    THEN IF result.decision = "approved"
         THEN update_state(assessed, [application_status |-> "approved"])
         ELSE update_state(assessed, [application_status |-> "rejected"])
    ELSE update_state(state, [active_agent |-> "master",
                              last_error |-> result.error])

underwriting_agent_node(state) ==
    LET result == process_underwriting(state)
        assessed == update_state(
                        add_message(state, "assistant", result.message, "underwriting"),
                        [credit_score |-> result.credit_score,
                         underwriting_decision |-> result.decision,
                         approved_amount |-> result.approved_amount,
                         conditional_requirements |-> result.conditions,
                         rejection_reason |-> result.reason,
                         active_agent |-> "master",
                         next_action |-> "None"])
    IN
    IF result.success
    THEN IF result.decision = "approved"
         THEN update_state(assessed, [application_status |-> "approved"])
         ELSE IF result.decision = "rejected"
         THEN update_state(assessed, [application_status |-> "rejected"])
         ELSE assessed
    ELSE update_state(state, [active_agent |-> "master",
                              last_error |-> result.error])

(* mutant: the sanction node records the stage sanction_generation *)
sanction_agent_node_StageSanction(state, serial) ==
    LET result == generate_sanction(state, serial) IN
    IF result.success
    THEN update_state(
             add_message(state, "assistant", result.message, "sanction"),
             [sanction_letter_url |-> result.sanction_letter_url,
              sanction_letter_ref_no |-> result.reference_number,
              current_stage |-> "sanction_generation",
              active_agent |-> "master",
              next_action |-> "None"])
    ELSE update_state(state, [active_agent |-> "master",
                              last_error |-> result.error])

sanction_agent_node(state, serial) ==
    LET result == generate_sanction(state, serial) IN
    IF result.success
    THEN update_state(
             add_message(state, "assistant", result.message, "sanction"),
             [sanction_letter_url |-> result.sanction_letter_url,
              sanction_letter_ref_no |-> result.reference_number,
              current_stage |-> "closure",
              active_agent |-> "master",
              next_action |-> "None"])
    ELSE update_state(state, [active_agent |-> "master",
                              last_error |-> result.error])

----------------------------------------------------------------------------
(* Routing (src/workflow/graph.py) *)

(* mutant: the closure test comes before the delegation tests *)
route_master_agent_ClosureFirst(state) ==
    LET next_action == state.next_action
        current_stage == state.current_stage
    IN
    IF current_stage = "closure"
       /\ state.application_status \in {"approved", "rejected", "abandoned"}
    THEN "end"
    ELSE IF next_action = "delegate_to_sales" THEN "sales"
    ELSE IF next_action = "delegate_to_verification" THEN "verification"
    ELSE IF next_action = "delegate_to_underwriting" THEN "underwriting"
    ELSE IF next_action = "delegate_to_sanction" THEN "sanction"
    ELSE "master"

(* mutant: the end test looks at the status alone *)
route_master_agent_StatusOnly(state) ==
    LET next_action == state.next_action IN
    IF next_action = "delegate_to_sales" THEN "sales"
    ELSE IF next_action = "delegate_to_verification" THEN "verification"
    ELSE IF next_action = "delegate_to_underwriting" THEN "underwriting"
    ELSE IF next_action = "delegate_to_sanction" THEN "sanction"
    ELSE IF state.application_status \in {"approved", "rejected", "abandoned"}
    THEN "end"
    ELSE "master"

route_master_agent(state) ==
    LET next_action == state.next_action
        current_stage == state.current_stage
    IN
    IF next_action = "delegate_to_sales" THEN "sales"
    ELSE IF next_action = "delegate_to_verification" THEN "verification"
    ELSE IF next_action = "delegate_to_underwriting" THEN "underwriting"
    ELSE IF next_action = "delegate_to_sanction" THEN "sanction"
    ELSE IF current_stage = "closure"
            /\ state.application_status \in {"approved", "rejected", "abandoned"}
    THEN "end"
    ELSE "master"

(* the conditional edges of create_workflow: router result -> next node *)
EdgeTarget(route) ==
    CASE route = "sales" -> "sales_agent"
      [] route = "verification" -> "verification_agent"
      [] route = "underwriting" -> "underwriting_agent"
      [] route = "sanction" -> "sanction_agent"
      [] route = "master" -> "master_agent"
      [] route = "end" -> "END"

----------------------------------------------------------------------------
(* Frames of process_message *)

NoVisits == [n \in Nodes |-> 0]

NoResult == [success |-> FALSE, error |-> "None", response |-> "None",
             current_stage |-> "none", application_status |-> "none"]

IdleFrame ==
    [pc |-> "idle", sid |-> "none", state |-> create_initial_state("none", "None"),
     steps |-> 0, last |-> "none", visits |-> NoVisits, result |-> NoResult]

Idle(c) == calls[c].pc = "idle"

UserText(n) == "user_message_" \o ToString(n)

(* mutant: the content of the first assistant entry *)
LastAssistant_First(history) ==
    IF \E i \in DOMAIN history : history[i].role = "assistant"
    THEN history[CHOOSE i \in DOMAIN history :
                     /\ history[i].role = "assistant"
                     /\ \A j \in 1..(i - 1) : history[j].role # "assistant"].content
    ELSE ""

(* the content of the last assistant entry of a history, "" if there is none *)
RECURSIVE LastAssistant(_)
LastAssistant(history) ==
    IF history = <<>> THEN ""
    ELSE IF Last(history).role = "assistant" THEN Last(history).content
    ELSE LastAssistant(SubSeq(history, 1, Len(history) - 1))

----------------------------------------------------------------------------
(* Initial state: an empty session store, nobody calling *)

Init ==
    /\ sessions = [s \in {} |-> IdleFrame.state]
    /\ calls = [c \in AllCallers |-> IdleFrame]
    /\ nmsgs = 0
    /\ documents = 0

----------------------------------------------------------------------------
(* Session store operations *)

(* create_session(customer_id): a record under a fresh session id *)
CreateSession(s, cid) ==
    /\ s \notin DOMAIN sessions
    /\ sessions' = [k \in DOMAIN sessions \cup {s} |->
                       IF k = s THEN create_initial_state(s, cid) ELSE sessions[k]]
    /\ UNCHANGED <<calls, nmsgs, documents>>

(* A caller writes the customer id it extracted into the stored record,    *)
(* through the reference get_session_state returns, while none is known.   *)
SetCustomerId(s, cid) ==
    /\ s \in DOMAIN sessions
    /\ \A c \in AllCallers : Idle(c)
    /\ ~TruthyStr(sessions[s].customer_id)
    /\ sessions' = [sessions EXCEPT ![s].customer_id = cid]
    /\ UNCHANGED <<calls, nmsgs, documents>>

(* A caller writes the amount it extracted from the user's text into the   *)
(* stored record, through the reference get_session_state returns, between *)
(* two messages.  No node of the graph writes requested_amount.            *)
SetRequestedAmount(s, amount) ==
    /\ s \in DOMAIN sessions
    /\ \A c \in AllCallers : Idle(c)
    /\ sessions[s].requested_amount # Some(amount)
    /\ sessions' = [sessions EXCEPT ![s].requested_amount = Some(amount)]
    /\ UNCHANGED <<calls, nmsgs, documents>>

----------------------------------------------------------------------------
(* process_message: entry, the graph loop, exit *)

(* get_session_state(session_id): the stored record, or None *)
get_session_state(s) ==
    IF s \in DOMAIN sessions THEN Some(sessions[s]) ELSE None

(* mutant: a session that is not in the store is created on the fly *)
ProcessMessage_AutoCreate(c, s) ==
    LET found == IF s \in DOMAIN sessions THEN sessions[s]
                 ELSE create_initial_state(s, "None")
    IN
    /\ Idle(c)
    /\ nmsgs < MaxMsgs
    /\ nmsgs' = nmsgs + 1
    /\ sessions' = [k \in DOMAIN sessions \cup {s} |->
                       IF k = s THEN found ELSE sessions[k]]
    /\ calls' = [calls EXCEPT ![c] =
             [IdleFrame EXCEPT !.pc = "master_agent", !.sid = s,
                               !.state = add_message(found, "user",
                                                     UserText(nmsgs + 1), "None")]]
    /\ UNCHANGED documents

(* process_message up to workflow.invoke: look the session up, append the message *)
ProcessMessage(c, s) ==
    /\ Idle(c)
    /\ nmsgs < MaxMsgs
    /\ nmsgs' = nmsgs + 1
    /\ IF s \notin DOMAIN sessions
       THEN calls' = [calls EXCEPT ![c] =
                [IdleFrame EXCEPT !.pc = "returned", !.sid = s,
                                  !.result = [NoResult EXCEPT !.error = "Session not found"]]]
       ELSE calls' = [calls EXCEPT ![c] =
                [IdleFrame EXCEPT !.pc = "master_agent", !.sid = s,
                                  !.state = add_message(sessions[s], "user",
                                                        UserText(nmsgs + 1), "None")]]
    /\ UNCHANGED <<sessions, documents>>

(* one superstep of the graph: node nd has produced new *)
AfterNode(c, nd, new, next) ==
    calls' = [calls EXCEPT ![c].state = new,
                           ![c].pc = next,
                           ![c].steps = @ + 1,
                           ![c].last = nd,
                           ![c].visits[nd] = @ + 1]

Runnable(c, nd) ==
    /\ calls[c].pc = nd
    /\ calls[c].steps < RecursionLimit

(* master_agent node, then the conditional edge route_master_agent *)
MasterStep(c) ==
    /\ Runnable(c, "master_agent")
    /\ \E result \in MasterInputs(calls[c].state) :
        LET new == master_agent_node(calls[c].state, result)
        IN AfterNode(c, "master_agent", new, EdgeTarget(route_master_agent(new)))
    /\ UNCHANGED <<sessions, nmsgs, documents>>

(* worker nodes: each has an edge back to master_agent *)
SalesStep(c) ==
    /\ Runnable(c, "sales_agent")
    /\ AfterNode(c, "sales_agent", sales_agent_node(calls[c].state), "master_agent")
    /\ UNCHANGED <<sessions, nmsgs, documents>>

VerificationStep(c) ==
    /\ Runnable(c, "verification_agent")
    /\ \E ok \in BOOLEAN :
        AfterNode(c, "verification_agent",
                  verification_agent_node(calls[c].state, ok), "master_agent")
    /\ UNCHANGED <<sessions, nmsgs, documents>>

UnderwritingStep(c) ==
    /\ Runnable(c, "underwriting_agent")
    /\ AfterNode(c, "underwriting_agent",
                 underwriting_agent_node(calls[c].state), "master_agent")
    /\ UNCHANGED <<sessions, nmsgs, documents>>

SanctionStep(c) ==
    /\ Runnable(c, "sanction_agent")
    /\ AfterNode(c, "sanction_agent",
                 sanction_agent_node(calls[c].state, documents + 1), "master_agent")
    /\ documents' = IF generate_sanction(calls[c].state, documents + 1).generated
                    THEN documents + 1 ELSE documents
    /\ UNCHANGED <<sessions, nmsgs>>

(* mutant: the limit is caught, the truncated record stored and returned *)
RecursionError_Persisting(c) ==
    /\ calls[c].pc \in Nodes
    /\ calls[c].steps >= RecursionLimit
    /\ sessions' = [sessions EXCEPT ![calls[c].sid] = calls[c].state]
    /\ calls' = [calls EXCEPT ![c].pc = "returned",
                    ![c].result = [success |-> TRUE, error |-> "None",
                        response |-> LastAssistant(calls[c].state.conversation_history),
                        current_stage |-> calls[c].state.current_stage,
                        application_status |-> calls[c].state.application_status]]
    /\ UNCHANGED <<nmsgs, documents>>

(* workflow.invoke raises GraphRecursionError: process_message does not catch it *)
RecursionError(c) ==
    /\ calls[c].pc \in Nodes
    /\ calls[c].steps >= RecursionLimit
    /\ calls' = [calls EXCEPT ![c].pc = "raised"]
    /\ UNCHANGED <<sessions, nmsgs, documents>>

(* mutant: the store is replaced by a dict holding only the result *)
Persist_ReplaceStore(c) ==
    /\ calls[c].pc = "END"
    /\ sessions' = [k \in {calls[c].sid} |-> calls[c].state]
    /\ calls' = [calls EXCEPT ![c].pc = "returned",
                    ![c].result = [success |-> TRUE, error |-> "None",
                        response |-> LastAssistant(calls[c].state.conversation_history),
                        current_stage |-> calls[c].state.current_stage,
                        application_status |-> calls[c].state.application_status]]
    /\ UNCHANGED <<nmsgs, documents>>

(* process_message after workflow.invoke: store the result, build the reply *)
Persist(c) ==
    /\ calls[c].pc = "END"
    /\ sessions' = [sessions EXCEPT ![calls[c].sid] = calls[c].state]
    /\ calls' = [calls EXCEPT ![c].pc = "returned",
                    ![c].result = [success |-> TRUE, error |-> "None",
                        response |-> LastAssistant(calls[c].state.conversation_history),
                        current_stage |-> calls[c].state.current_stage,
                        application_status |-> calls[c].state.application_status]]
    /\ UNCHANGED <<nmsgs, documents>>

(* the caller has its result, or the exception *)
Return(c) ==
    /\ calls[c].pc \in {"returned", "raised"}
    /\ calls' = [calls EXCEPT ![c] = IdleFrame]
    /\ UNCHANGED <<sessions, nmsgs, documents>>

----------------------------------------------------------------------------

Next ==
    \/ \E s \in SessionIds, cid \in {"None"} \cup CustomerIds : CreateSession(s, cid)
    \/ \E s \in SessionIds, cid \in CustomerIds : SetCustomerId(s, cid)
    \/ \E s \in SessionIds, amount \in RequestedAmounts : SetRequestedAmount(s, amount)
    \/ \E c \in MainCallers, s \in SessionIds \cup UnknownIds : ProcessMessage(c, s)
    \/ \E c \in MainCallers : MasterStep(c)
    \/ \E c \in MainCallers : SalesStep(c)
    \/ \E c \in MainCallers : VerificationStep(c)
    \/ \E c \in MainCallers : UnderwritingStep(c)
    \/ \E c \in MainCallers : SanctionStep(c)
    \/ \E c \in MainCallers : RecursionError(c)
    \/ \E c \in MainCallers : Persist(c)
    \/ \E c \in MainCallers : Return(c)

Spec == Init /\ [][Next]_vars

----------------------------------------------------------------------------
(* Two callers on one session.  process_message takes no lock: it reads    *)
(* the stored record, runs the graph on its own copy and assigns the       *)
(* result to the store.  The graph steps touch only the caller's own       *)
(* frame, so their order among callers does not show in the store: here a  *)
(* caller reads the store while every other caller is idle or about to     *)
(* write (at END), and the reads and writes of the store interleave        *)
(* freely.  One known customer and one amount keep the state space small.  *)

LoopFree(c) == \A d \in AllCallers \ {c} : calls[d].pc \in {"idle", "END"}

NextConcurrent ==
    \/ \E s \in SessionIds : CreateSession(s, "CUST001")
    \/ \E s \in SessionIds : SetRequestedAmount(s, 400)
    \/ \E c \in AllCallers, s \in SessionIds : LoopFree(c) /\ ProcessMessage(c, s)
    \/ \E c \in AllCallers : MasterStep(c)
    \/ \E c \in AllCallers : SalesStep(c)
    \/ \E c \in AllCallers : VerificationStep(c)
    \/ \E c \in AllCallers : UnderwritingStep(c)
    \/ \E c \in AllCallers : SanctionStep(c)
    \/ \E c \in AllCallers : RecursionError(c)
    \/ \E c \in AllCallers : Persist(c)
    \/ \E c \in AllCallers : Return(c)

SpecConcurrent == Init /\ [][NextConcurrent]_vars

----------------------------------------------------------------------------
(* One caller, two sessions in the store *)

StoreSessionIds == {"s1", "s2"}

NextStore ==
    \/ \E s \in StoreSessionIds : CreateSession(s, "CUST001")
    \/ \E s \in StoreSessionIds : SetRequestedAmount(s, 400)
    \/ \E c \in MainCallers, s \in StoreSessionIds \cup UnknownIds : ProcessMessage(c, s)
    \/ \E c \in MainCallers : MasterStep(c)
    \/ \E c \in MainCallers : SalesStep(c)
    \/ \E c \in MainCallers : VerificationStep(c)
    \/ \E c \in MainCallers : UnderwritingStep(c)
    \/ \E c \in MainCallers : SanctionStep(c)
    \/ \E c \in MainCallers : RecursionError(c)
    \/ \E c \in MainCallers : Persist(c)
    \/ \E c \in MainCallers : Return(c)

SpecStore == Init /\ [][NextStore]_vars

----------------------------------------------------------------------------
(* The underwriting unit on its own: the node is a function of the record  *)
(* it is given.  The record is drawn over every customer, amounts on both  *)
(* sides of each pre-approved limit and of twice the limit, and the salary *)
(* fields; after a needs_documents decision the salary slip is ingested    *)
(* and the same node is invoked again.                                     *)

UnitAmounts == {100, 400, 500, 600, 800, 900, 1000, 1100}
UnitSalaries == {None, Some(30000), Some(50000), Some(120000)}

UnitRecord(cid, amount, uploaded, salary) ==
    update_state(create_initial_state("s1", cid),
                 [requested_amount |-> Some(amount),
                  salary_slip_uploaded |-> uploaded,
                  monthly_salary |-> salary,
                  next_action |-> "delegate_to_underwriting"])

InitUnderwriting ==
    \E cid \in CustomerIds, amount \in UnitAmounts,
       uploaded \in BOOLEAN, salary \in UnitSalaries :
        /\ sessions = [s \in {"s1"} |-> UnitRecord(cid, amount, uploaded, salary)]
        /\ calls = [c \in AllCallers |->
                       IF c \in MainCallers
                       THEN [IdleFrame EXCEPT
                                !.pc = "underwriting_agent", !.sid = "s1",
                                !.state = UnitRecord(cid, amount, uploaded, salary)]
                       ELSE IdleFrame]
        /\ nmsgs = 0
        /\ documents = 0

(* process_salary_slip has verified a slip: the net salary is recorded,    *)
(* the slip is marked uploaded and underwriting is invoked again           *)
IngestSalarySlip(c, salary) ==
    /\ calls[c].pc = "master_agent"
    /\ calls[c].last = "underwriting_agent"
    /\ calls[c].state.underwriting_decision = "needs_documents"
    /\ ~calls[c].state.salary_slip_uploaded
    /\ calls' = [calls EXCEPT
                    ![c].state = update_state(calls[c].state,
                                     [salary_slip_uploaded |-> TRUE,
                                      monthly_salary |-> salary,
                                      next_action |-> "delegate_to_underwriting"]),
                    ![c].pc = "underwriting_agent",
                    ![c].last = "none"]
    /\ UNCHANGED <<sessions, nmsgs, documents>>

NextUnderwriting ==
    \/ \E c \in MainCallers : UnderwritingStep(c)
    \/ \E c \in MainCallers, salary \in UnitSalaries \ {None} : IngestSalarySlip(c, salary)

SpecUnderwriting == InitUnderwriting /\ [][NextUnderwriting]_vars

----------------------------------------------------------------------------
(* Vocabulary of the properties *)

Active(c) == calls[c].pc # "idle"

(* the router has just decided on calls[c].state: pc is the node it chose *)
JustRouted(c) ==
    /\ calls[c].last = "master_agent"
    /\ calls[c].pc \in Nodes \cup {"END"}

IsPrefix(h1, h2) ==
    /\ Len(h1) <= Len(h2)
    /\ SubSeq(h2, 1, Len(h1)) = h1

(* the frame of c keeps serving the same invocation across this step *)
SameInvocation(c) == Active(c) /\ calls'[c].pc # "idle"

(* this step is process_message reading the stored record of s *)
Enters(c, s) ==
    /\ Idle(c)
    /\ calls'[c].pc = "master_agent"
    /\ calls'[c].sid = s

(* this step is the sanction node acting: an artifact or a change of the record *)
SanctionActs(c) ==
    /\ calls[c].pc = "sanction_agent"
    /\ calls'[c].pc = "master_agent"
    /\ \/ documents' # documents
       \/ calls'[c].state.sanction_letter_ref_no # calls[c].state.sanction_letter_ref_no
       \/ calls'[c].state.sanction_letter_url # calls[c].state.sanction_letter_url
       \/ calls'[c].state.current_stage # calls[c].state.current_stage

----------------------------------------------------------------------------
(* C1: the step loop of process_message halts: once the master has        *)
(* answered the user message and no delegation is pending the router stops *)
(* the loop, and no invocation ends in the recursion limit.                *)
C1_StepLoopHalts ==
    \A c \in AllCallers :
        /\ calls[c].pc # "raised"
        /\ (JustRouted(c) /\ calls[c].state.next_action \notin Delegations)
               => calls[c].pc = "END"

(* C2: a delegation signal is dispatched to exactly the unit it names,     *)
(* whatever the stage and the status.                                      *)
C2_DelegationWins ==
    \A c \in AllCallers :
        JustRouted(c) =>
            /\ calls[c].state.next_action = "delegate_to_sales"
                   => calls[c].pc = "sales_agent"
            /\ calls[c].state.next_action = "delegate_to_verification"
                   => calls[c].pc = "verification_agent"
            /\ calls[c].state.next_action = "delegate_to_underwriting"
                   => calls[c].pc = "underwriting_agent"
            /\ calls[c].state.next_action = "delegate_to_sanction"
                   => calls[c].pc = "sanction_agent"

(* C2 witness: a delegation dispatched from a closed record in closure *)
C2_Witness ==
    \E c \in AllCallers :
        /\ JustRouted(c)
        /\ calls[c].state.next_action = "delegate_to_sanction"
        /\ calls[c].state.current_stage = "closure"
        /\ calls[c].state.application_status = "approved"
        /\ calls[c].pc = "sanction_agent"

(* C3: without a delegation signal the router ends exactly when the record *)
(* is in closure with a closed status, and otherwise stays with the master *)
C3_EndIffClosed ==
    \A c \in AllCallers :
        (JustRouted(c) /\ calls[c].state.next_action \notin Delegations) =>
            /\ calls[c].pc = "END" <=>
                   /\ calls[c].state.current_stage = "closure"
                   /\ calls[c].state.application_status \in ClosedStatuses
            /\ calls[c].pc # "END" => calls[c].pc = "master_agent"

(* C3 witness: the router ended on a closed record; the other branch is    *)
(* the first step of every conversation                                    *)
C3_Witness ==
    \E c \in AllCallers :
        /\ JustRouted(c)
        /\ calls[c].state.next_action \notin Delegations
        /\ calls[c].pc = "END"
        /\ calls[c].state.application_status = "rejected"

(* C4: once application_status is approved or rejected no step changes it, *)
(* in the working record of an invocation or in the stored record.         *)
C4_StatusMonotonic ==
    [][/\ \A c \in AllCallers :
            (SameInvocation(c)
             /\ calls[c].state.application_status \in {"approved", "rejected"})
                => calls'[c].state.application_status = calls[c].state.application_status
       /\ \A s \in DOMAIN sessions :
            sessions[s].application_status \in {"approved", "rejected"}
                => sessions'[s].application_status = sessions[s].application_status
       /\ \A c \in AllCallers, s \in DOMAIN sessions :
            Enters(c, s)
                => calls'[c].state.application_status = sessions[s].application_status
      ]_vars

(* C5: in every record, working or stored, a status of approved or         *)
(* rejected implies the stage closure.                                     *)
C5_DecidedImpliesClosure ==
    /\ \A c \in AllCallers :
        (Active(c) /\ calls[c].state.application_status \in {"approved", "rejected"})
            => calls[c].state.current_stage = "closure"
    /\ \A s \in DOMAIN sessions :
        sessions[s].application_status \in {"approved", "rejected"}
            => sessions[s].current_stage = "closure"

C7_AppendOnlyHistory ==
    [][/\ \A c \in AllCallers :
            SameInvocation(c)
                => IsPrefix(calls[c].state.conversation_history,
                            calls'[c].state.conversation_history)
       /\ \A s \in DOMAIN sessions :
            IsPrefix(sessions[s].conversation_history, sessions'[s].conversation_history)
       /\ \A c \in AllCallers, s \in DOMAIN sessions :
            Enters(c, s) =>
                LET h == calls'[c].state.conversation_history IN
                /\ Len(h) = Len(sessions[s].conversation_history) + 1
                /\ IsPrefix(sessions[s].conversation_history, h)
                /\ Last(h).role = "user"
      ]_vars

(* C7 witness: an invocation on a stored, non-empty history has appended   *)
(* the user entry, the master's reply and a worker's entries               *)
C7_Witness ==
    \E c \in AllCallers :
        /\ Active(c)
        /\ calls[c].sid \in DOMAIN sessions
        /\ sessions[calls[c].sid].conversation_history # <<>>
        /\ calls[c].last = "verification_agent"
        /\ Len(calls[c].state.conversation_history)
               = Len(sessions[calls[c].sid].conversation_history) + 4

(* C8: a worker node is handed the record with the routing signal cleared  *)
C8_SignalClearedBeforeDispatch ==
    \A c \in AllCallers :
        calls[c].pc \in Workers => calls[c].state.next_action = "None"

(* C9: the sanction node generates an artifact, stores the reference and   *)
(* the location or sets closure only on a record whose status is approved  *)
(* and whose customer_id, approved_amount, tenure_months, interest_rate    *)
(* and monthly_emi are present.                                            *)
C9_SanctionOnlyApproved ==
    [][\A c \in AllCallers :
        SanctionActs(c) =>
            /\ calls[c].state.application_status = "approved"
            /\ calls[c].state.customer_id # "None"
            /\ calls[c].state.approved_amount # None
            /\ calls[c].state.tenure_months # None
            /\ calls[c].state.interest_rate # None
            /\ calls[c].state.monthly_emi # None
      ]_vars

(* C9 witness: the sanction node has generated an artifact *)
C9_Witness ==
    \E c \in AllCallers :
        /\ calls[c].last = "sanction_agent"
        /\ documents >= 1
        /\ calls[c].state.sanction_letter_ref_no # "None"
        /\ calls[c].state.sanction_letter_url # "None"
        /\ calls[c].state.application_status = "approved"

(* C10: a sanction dispatched on a record with a required field missing    *)
(* is not dispatched again for the same message, and the invocation does   *)
(* not end in an error.                                                    *)
C10_SanctionDeclinesOnce ==
    \A c \in AllCallers :
        (Active(c)
         /\ calls[c].visits["sanction_agent"] >= 1
         /\ ~SanctionFieldsPresent(calls[c].state))
            => /\ calls[c].visits["sanction_agent"] = 1
               /\ calls[c].pc # "raised"

(* C11: the sanction node applied to a record that already holds a         *)
(* sanction reference and location does not generate another artifact and  *)
(* leaves the stored reference and location as they are.                   *)
C11_SanctionIdempotent ==
    [][\A c \in AllCallers :
        (/\ calls[c].pc = "sanction_agent"
         /\ calls'[c].pc = "master_agent"
         /\ calls[c].state.sanction_letter_ref_no # "None"
         /\ calls[c].state.sanction_letter_url # "None")
            => /\ documents' = documents
               /\ calls'[c].state.sanction_letter_ref_no
                      = calls[c].state.sanction_letter_ref_no
               /\ calls'[c].state.sanction_letter_url
                      = calls[c].state.sanction_letter_url
      ]_vars

(* this step is the underwriting node succeeding: it has appended its message *)
UnderwritingSucceeds(c) ==
    /\ calls[c].pc = "underwriting_agent"
    /\ calls'[c].pc = "master_agent"
    /\ Len(calls'[c].state.conversation_history)
           = Len(calls[c].state.conversation_history) + 1

(* C12: a successful underwriting step records the eligibility decision    *)
(* of that step in underwriting_decision; approved sets the status         *)
(* approved; rejected sets the status rejected and records a rejection     *)
(* reason; needs_documents leaves status and stage as they were and        *)
(* records salary_slip_upload in conditional_requirements.                 *)
C12_UnderwritingMapping ==
    [][\A c \in AllCallers :
        UnderwritingSucceeds(c) =>
            LET old == calls[c].state
                new == calls'[c].state
                decision == process_underwriting(old).decision
            IN /\ new.underwriting_decision = decision
               /\ decision \in {"approved", "rejected", "needs_documents"}
               /\ decision = "approved" => new.application_status = "approved"
               /\ decision = "rejected" =>
                      /\ new.application_status = "rejected"
                      /\ new.rejection_reason # "None"
               /\ decision = "needs_documents" =>
                      /\ new.application_status = old.application_status
                      /\ new.current_stage = old.current_stage
                      /\ \E i \in DOMAIN new.conditional_requirements :
                            new.conditional_requirements[i] = "salary_slip_upload"
      ]_vars

(* C12 witness: underwriting has just asked for the salary slip *)
C12_Witness ==
    \E c \in AllCallers :
        /\ calls[c].last = "underwriting_agent"
        /\ calls[c].state.underwriting_decision = "needs_documents"
        /\ calls[c].state.conditional_requirements = <<"salary_slip_upload">>
        /\ calls[c].state.application_status = "in_progress"

(* C13: approved_amount changes only in a successful underwriting step;    *)
(* an approving step sets it to at most the requested_amount of that step, *)
(* a rejecting or needs_documents step leaves it unset; a record that      *)
(* holds an approved_amount holds the decision approved.                   *)
C13_ApprovedAmountFromApproval ==
    [][\A c \in AllCallers :
        /\ (SameInvocation(c)
            /\ calls'[c].state.approved_amount # calls[c].state.approved_amount)
                => UnderwritingSucceeds(c)
        /\ UnderwritingSucceeds(c) =>
             LET old == calls[c].state
                 new == calls'[c].state
             IN IF new.underwriting_decision = "approved"
                THEN /\ new.approved_amount # None
                     /\ Val(new.approved_amount) <= Val(old.requested_amount)
                ELSE new.approved_amount = None
        /\ \A s \in DOMAIN sessions' :
              sessions'[s].approved_amount # None
                  => sessions'[s].underwriting_decision = "approved"
      ]_vars

(* C13 witness: an underwriting step has cleared an approved_amount that   *)
(* an earlier message had stored                                           *)
C13_Witness ==
    \E c \in AllCallers :
        /\ calls[c].last = "underwriting_agent"
        /\ calls[c].sid \in DOMAIN sessions
        /\ sessions[calls[c].sid].approved_amount # None
        /\ calls[c].state.underwriting_decision \in {"rejected", "needs_documents"}
        /\ calls[c].state.approved_amount = None

(* the error of the worker step this step is, "None" if the worker's agent *)
(* succeeds or the step is not a worker's                                  *)
StepError(c) ==
    LET old == calls[c].state
        new == calls'[c].state
    IN
    IF calls'[c].pc # "master_agent" THEN "None"
    ELSE IF calls[c].pc = "sales_agent"
    THEN IF Truthy(old.requested_amount)
         THEN process_sales(old, Val(old.requested_amount)).error
         ELSE "None"
    ELSE IF calls[c].pc = "verification_agent"
    THEN IF new = verification_agent_node(old, TRUE)
         THEN "None"
         ELSE start_verification(old, FALSE).error
    ELSE IF calls[c].pc = "underwriting_agent"
    THEN process_underwriting(old).error
    ELSE IF calls[c].pc = "sanction_agent"
    THEN generate_sanction(old, documents + 1).error
    ELSE "None"

(* the fields a failing worker step may write *)
FailureFields == {"active_agent", "next_action", "last_error"}

(* C14: a worker step that fails returns the record it was given in every  *)
(* field but active_agent, next_action and last_error, and last_error      *)
(* holds the error of that step alone.                                     *)
C14_AtomicFailure ==
    [][\A c \in AllCallers :
        StepError(c) # "None" =>
            LET old == calls[c].state
                new == calls'[c].state
            IN /\ DOMAIN new = DOMAIN old
               /\ \A k \in DOMAIN old \ FailureFields : new[k] = old[k]
               /\ new.last_error = StepError(c)
               /\ documents' = documents
      ]_vars

(* C14 witness: a sales step has failed on an unknown customer *)
C14_Witness ==
    \E c \in AllCallers :
        /\ calls[c].last = "sales_agent"
        /\ calls[c].state.last_error = "Customer not found"
        /\ Last(calls[c].state.conversation_history).agent = "master"

(* C15: when a collaborator of a worker fails (the credit score cannot be  *)
(* fetched, the sanction letter cannot be generated) the worker has        *)
(* appended a message for the user, is not dispatched again for the same   *)
(* message, and the invocation does not end in an error.                   *)
C15_CollaboratorFailureRecoverable ==
    \A c \in AllCallers :
        (Active(c)
         /\ calls[c].state.last_error \in {"Unable to fetch credit score",
                                           "Failed to generate sanction letter"}
         /\ calls[c].visits["underwriting_agent"]
                + calls[c].visits["sanction_agent"] >= 1)
            => /\ Last(calls[c].state.conversation_history).agent
                      \in {"underwriting", "sanction"}
               /\ calls[c].visits["underwriting_agent"]
                      + calls[c].visits["sanction_agent"] = 1
               /\ calls[c].pc # "raised"

(* C16: an invocation whose loop exceeds the iteration cap ends raised,    *)
(* never with a result; from the step that reads the stored record to the  *)
(* return of the error nothing is written to the store, so the stored      *)
(* record is the one stored before the message and does not hold the new   *)
(* user message.                                                           *)
C16_CapExceededLeavesStore ==
    [][\A c \in AllCallers :
        /\ ((\E s \in SessionIds : Enters(c, s)) \/ calls[c].pc \in Nodes \cup {"raised"})
              => sessions' = sessions
        /\ (calls[c].pc # "raised" /\ calls'[c].pc = "raised")
              => /\ calls[c].pc \in Nodes
                 /\ calls[c].steps >= RecursionLimit
        /\ calls[c].pc = "raised"
              => /\ calls'[c].pc \in {"raised", "idle"}
                 /\ ~calls[c].result.success
                 /\ \A i \in DOMAIN sessions[calls[c].sid].conversation_history :
                       sessions[calls[c].sid].conversation_history[i].content
                           # UserText(nmsgs)
      ]_vars

(* C16 witness: an invocation has raised at the cap after underwriting had *)
(* decided on its working record; the stored record holds no decision      *)
C16_Witness ==
    \E c \in AllCallers :
        /\ calls[c].pc = "raised"
        /\ calls[c].steps = RecursionLimit
        /\ calls[c].state.underwriting_decision # "None"
        /\ sessions[calls[c].sid].underwriting_decision = "None"
        /\ Len(sessions[calls[c].sid].conversation_history)
               < Len(calls[c].state.conversation_history)

(* the user messages of history h are all in history g *)
UserMessagesIn(h, g) ==
    \A i \in DOMAIN h :
        h[i].role = "user" => \E j \in DOMAIN g : g[j] = h[i]

(* C17: two invocations on the same session do not lose an update: when    *)
(* both have persisted and returned, the stored conversation_history       *)
(* holds the user message of each.                                         *)
C17_NoLostUpdate ==
    \A c, d \in AllCallers :
        (/\ c # d
         /\ calls[c].pc = "returned" /\ calls[c].result.success
         /\ calls[d].pc = "returned" /\ calls[d].result.success
         /\ calls[c].sid = calls[d].sid)
            => /\ UserMessagesIn(calls[c].state.conversation_history,
                                 sessions[calls[c].sid].conversation_history)
               /\ UserMessagesIn(calls[d].state.conversation_history,
                                 sessions[calls[c].sid].conversation_history)

(* C18: process_message on a session id that is not in the store returns   *)
(* success False with the error Session not found, runs no node of the     *)
(* graph, creates no session and leaves every stored record as it is;      *)
(* get_session_state returns None for that id.                             *)
C18_UnknownSession ==
    [][\A c \in AllCallers :
        /\ \A s \in SessionIds \cup UnknownIds :
             (Idle(c) /\ calls'[c].pc # "idle" /\ calls'[c].sid = s
              /\ s \notin DOMAIN sessions)
                => /\ calls'[c].pc = "returned"
                   /\ ~calls'[c].result.success
                   /\ calls'[c].result.error = "Session not found"
                   /\ calls'[c].steps = 0
                   /\ calls'[c].visits = NoVisits
                   /\ sessions' = sessions
                   /\ get_session_state(s)' = None
        /\ (calls[c].pc = "returned" /\ ~calls[c].result.success)
                => /\ calls'[c].pc \in {"returned", "idle"}
                   /\ calls'[c].steps = 0
      ]_vars

(* C18 witness: a call on an unknown id has failed while the store holds   *)
(* the record of a session that has persisted a conversation               *)
C18_Witness ==
    \E c \in AllCallers, k \in SessionIds :
        /\ calls[c].pc = "returned"
        /\ calls[c].result.error = "Session not found"
        /\ calls[c].sid \notin DOMAIN sessions
        /\ get_session_state(calls[c].sid) = None
        /\ k \in DOMAIN sessions
        /\ sessions[k].conversation_history # <<>>

C20_ResultMirrorsPersisted ==
    \A c \in AllCallers :
        (calls[c].pc = "returned" /\ calls[c].result.success)
            => LET rec == sessions[calls[c].sid]
                   h == rec.conversation_history
                   result == calls[c].result
               IN /\ rec = calls[c].state
                  /\ result.current_stage = rec.current_stage
                  /\ result.application_status = rec.application_status
                  /\ IF \E i \in DOMAIN h : h[i].role = "assistant"
                     THEN \E i \in DOMAIN h :
                             /\ h[i].role = "assistant"
                             /\ h[i].content = result.response
                             /\ \A j \in (i + 1)..Len(h) : h[j].role # "assistant"
                     ELSE result.response = ""

(* C20 witness: a call has returned the approval that underwriting         *)
(* appended after the master's reply                                       *)
C20_Witness ==
    \E c \in AllCallers :
        /\ calls[c].pc = "returned"
        /\ calls[c].result.success
        /\ calls[c].result.response = "underwriting_approved"
        /\ calls[c].result.current_stage = "closure"
        /\ calls[c].result.application_status = "approved"
        /\ Len(sessions[calls[c].sid].conversation_history) >= 3

(* C21: every stored record, from create_session on, has a non-empty       *)
(* conversation_history whose first entry is the greeting of the master    *)
(* node's empty-history branch.                                            *)
C21_GreetingAfterCreate ==
    \A s \in DOMAIN sessions :
        /\ sessions[s].conversation_history # <<>>
        /\ sessions[s].conversation_history[1]
               = [role |-> "assistant", content |-> "greeting", agent |-> "master"]

SalesSucceeds(c) ==
    /\ calls[c].pc = "sales_agent"
    /\ calls'[c].pc = "master_agent"
    /\ Len(calls'[c].state.conversation_history)
           = Len(calls[c].state.conversation_history) + 1

(* C23: a successful sales step stores three offers, of 12, 24 and 36      *)
(* months in that order, each for the requested_amount and at one rate,    *)
(* sets tenure_months, interest_rate and monthly_emi to those of the       *)
(* second offer, appends one assistant entry of sales, and leaves          *)
(* requested_amount, current_stage and application_status as they were.    *)
C23_SalesOffers ==
    [][\A c \in AllCallers :
        SalesSucceeds(c) =>
            LET old == calls[c].state
                new == calls'[c].state
                offers == new.recommended_offers
            IN /\ Len(offers) = 3
               /\ \A i \in 1..3 :
                     /\ offers[i].tenure_months = 12 * i
                     /\ offers[i].amount = Val(old.requested_amount)
                     /\ offers[i].interest_rate = offers[1].interest_rate
               /\ new.tenure_months = Some(24)
               /\ new.tenure_months = Some(offers[2].tenure_months)
               /\ new.interest_rate = Some(offers[2].interest_rate)
               /\ new.monthly_emi = Some(offers[2].monthly_emi)
               /\ IsPrefix(old.conversation_history, new.conversation_history)
               /\ Last(new.conversation_history).role = "assistant"
               /\ Last(new.conversation_history).agent = "sales"
               /\ new.requested_amount = old.requested_amount
               /\ new.current_stage = old.current_stage
               /\ new.application_status = old.application_status
      ]_vars

(* C23 witness: the sales node has just presented its offers *)
C23_Witness ==
    \E c \in AllCallers :
        /\ calls[c].last = "sales_agent"
        /\ Last(calls[c].state.conversation_history).agent = "sales"
        /\ Len(calls[c].state.recommended_offers) = 3
        /\ calls[c].state.tenure_months = Some(24)
        /\ calls[c].state.monthly_emi
               = Some(calls[c].state.recommended_offers[2].monthly_emi)

(* the customer of the record the underwriting node is about to read *)
UnitCustomer(c) == get_customer_by_id(calls[c].state.customer_id)

(* C24: for a customer with credit score at least 700 and a                *)
(* requested_amount within the pre-approved limit, one underwriting step,  *)
(* with or without a salary, records the decision approved, the status     *)
(* approved, approved_amount equal to requested_amount and no condition.   *)
C24_InstantApproval ==
    [][\A c \in AllCallers :
        (/\ calls[c].pc = "underwriting_agent"
         /\ calls'[c].pc = "master_agent"
         /\ UnitCustomer(c).found
         /\ UnitCustomer(c).credit_score >= 700
         /\ Val(calls[c].state.requested_amount) <= UnitCustomer(c).pre_approved_limit)
            => LET new == calls'[c].state
               IN /\ UnderwritingSucceeds(c)
                  /\ new.underwriting_decision = "approved"
                  /\ new.application_status = "approved"
                  /\ new.approved_amount = calls[c].state.requested_amount
                  /\ new.conditional_requirements = <<>>
      ]_vars

(* C24 witness: approved at the pre-approved limit itself, no salary given *)
C24_Witness ==
    \E c \in AllCallers :
        /\ calls[c].last = "underwriting_agent"
        /\ calls[c].state.customer_id = "CUST002"
        /\ calls[c].state.requested_amount = Some(400)
        /\ ~calls[c].state.salary_slip_uploaded
        /\ calls[c].state.application_status = "approved"
        /\ calls[c].state.approved_amount = Some(400)

(* the salary the underwriting unit hands to the eligibility check for the *)
(* record it is about to read: the record's own, else the customer's       *)
UnitSalary(c) ==
    IF Truthy(calls[c].state.monthly_salary)
    THEN Val(calls[c].state.monthly_salary)
    ELSE UnitCustomer(c).monthly_salary

(* the new EMI (12% over 36 months) plus the customer's existing EMIs *)
UnitTotalEmi(c) ==
    calculate_emi(Val(calls[c].state.requested_amount), 1200, 36)
        + calculate_total_existing_emi(calls[c].state.customer_id)

(* the record the node is about to read asks for more than the             *)
(* pre-approved limit and at most twice the limit, at a score of 700 up    *)
UnitConditional(c) ==
    /\ calls[c].pc = "underwriting_agent"
    /\ calls'[c].pc = "master_agent"
    /\ UnitCustomer(c).found
    /\ UnitCustomer(c).credit_score >= 700
    /\ Val(calls[c].state.requested_amount) > UnitCustomer(c).pre_approved_limit
    /\ Val(calls[c].state.requested_amount) <= 2 * UnitCustomer(c).pre_approved_limit

(* C25: for a score of at least 700 and an amount above the limit and at   *)
(* most twice the limit, an underwriting step without an uploaded salary   *)
(* slip records needs_documents with the condition salary_slip_upload and  *)
(* leaves the status; a step with the slip uploaded decides as the same    *)
(* eligibility check does on the salary, approving (status approved,       *)
(* approved_amount equal to requested_amount) exactly when the new EMI     *)
(* plus the existing EMIs is at most half the salary, rejecting otherwise. *)
C25_ConditionalApproval ==
    [][\A c \in AllCallers :
        UnitConditional(c) =>
            LET old == calls[c].state
                new == calls'[c].state
            IN /\ UnderwritingSucceeds(c)
               /\ ~old.salary_slip_uploaded =>
                     /\ new.underwriting_decision = "needs_documents"
                     /\ new.conditional_requirements = <<"salary_slip_upload">>
                     /\ new.application_status = old.application_status
                     /\ new.approved_amount = None
               /\ old.salary_slip_uploaded =>
                     /\ new.underwriting_decision
                            = check_eligibility(old.customer_id,
                                                Val(old.requested_amount),
                                                Some(UnitSalary(c))).decision
                     /\ IF 2 * UnitTotalEmi(c) <= UnitSalary(c)
                        THEN /\ new.underwriting_decision = "approved"
                             /\ new.application_status = "approved"
                             /\ new.approved_amount = old.requested_amount
                        ELSE /\ new.underwriting_decision = "rejected"
                             /\ new.application_status = "rejected"
                             /\ new.approved_amount = None
      ]_vars

(* C25 witness: the second underwriting step, after the slip was ingested, *)
(* has approved what the first had asked documents for                     *)
C25_Witness ==
    \E c \in AllCallers :
        /\ calls[c].last = "underwriting_agent"
        /\ calls[c].visits["underwriting_agent"] = 2
        /\ calls[c].state.salary_slip_uploaded
        /\ calls[c].state.customer_id = "CUST002"
        /\ calls[c].state.requested_amount = Some(600)
        /\ calls[c].state.application_status = "approved"
        /\ calls[c].state.approved_amount = Some(600)

(* C26: for a customer with a credit score below 700 every underwriting    *)
(* step, whatever the amount and the salary, records the decision and the  *)
(* status rejected, a rejection reason and no approved_amount, and the     *)
(* eligibility result carries at least one recommendation.                 *)
C26_LowScoreRejected ==
    [][\A c \in AllCallers :
        (/\ calls[c].pc = "underwriting_agent"
         /\ calls'[c].pc = "master_agent"
         /\ UnitCustomer(c).found
         /\ UnitCustomer(c).credit_score < 700)
            => LET new == calls'[c].state
               IN /\ UnderwritingSucceeds(c)
                  /\ new.underwriting_decision = "rejected"
                  /\ new.application_status = "rejected"
                  /\ new.rejection_reason \notin {"None", ""}
                  /\ new.approved_amount = None
                  /\ process_underwriting(calls[c].state).recommendations >= 1
      ]_vars

(* C26 witness: rejected on the score, for an amount within the            *)
(* pre-approved limit and with a salary slip uploaded                      *)
C26_Witness ==
    \E c \in AllCallers :
        /\ calls[c].last = "underwriting_agent"
        /\ calls[c].state.customer_id = "CUST003"
        /\ calls[c].state.requested_amount = Some(100)
        /\ calls[c].state.salary_slip_uploaded
        /\ calls[c].state.monthly_salary = Some(120000)
        /\ calls[c].state.application_status = "rejected"
        /\ calls[c].state.rejection_reason = "credit_score_below_minimum"

(* C27: an amount above twice the pre-approved limit is rejected by every  *)
(* underwriting step and never answered with needs_documents, with or      *)
(* without an uploaded salary slip; needs_documents is decided only for a  *)
(* score of at least 700, an amount above the limit and at most twice the  *)
(* limit, and no salary handed to the eligibility check.                   *)
C27_OverCeilingRejected ==
    [][\A c \in AllCallers :
        (/\ calls[c].pc = "underwriting_agent"
         /\ calls'[c].pc = "master_agent"
         /\ UnitCustomer(c).found)
            => LET old == calls[c].state
                   new == calls'[c].state
                   limit == UnitCustomer(c).pre_approved_limit
               IN /\ Val(old.requested_amount) > 2 * limit
                        => /\ UnderwritingSucceeds(c)
                           /\ new.underwriting_decision = "rejected"
                           /\ new.application_status = "rejected"
                  /\ (UnderwritingSucceeds(c)
                      /\ new.underwriting_decision = "needs_documents")
                        => /\ UnitCustomer(c).credit_score >= 700
                           /\ Val(old.requested_amount) > limit
                           /\ Val(old.requested_amount) <= 2 * limit
                           /\ ~old.salary_slip_uploaded
      ]_vars

(* C27 witness: an amount over the ceiling rejected with the slip uploaded *)
(* and a salary that would carry the EMI                                   *)
C27_Witness ==
    \E c \in AllCallers :
        /\ calls[c].last = "underwriting_agent"
        /\ calls[c].state.customer_id = "CUST002"
        /\ calls[c].state.requested_amount = Some(900)
        /\ calls[c].state.salary_slip_uploaded
        /\ calls[c].state.monthly_salary = Some(120000)
        /\ calls[c].state.underwriting_decision = "rejected"
        /\ calls[c].state.rejection_reason = "exceeds_maximum_eligible_limit"

(* C28: within one invocation the master node leaves the record as it is   *)
(* when the last entry is an assistant's, a worker returns the record with *)
(* the routing signal cleared on its success and on its failure path, and  *)
(* no worker is dispatched twice for the same message.                     *)
C28_OneDispatchPerSignal ==
    \A c \in AllCallers :
        Active(c) =>
            /\ calls[c].last \in Workers => calls[c].state.next_action = "None"
            /\ \A w \in Workers : calls[c].visits[w] <= 1

(* C29: an underwriting step approves an amount above the customer's       *)
(* pre-approved limit only on a record with the salary slip uploaded, a    *)
(* score of at least 700, an amount of at most twice the limit and a new   *)
(* EMI plus existing EMIs of at most half the salary handed to the         *)
(* eligibility check; a record approved above the limit has the slip       *)
(* uploaded.                                                               *)
C29_NoUnverifiedOverLimit ==
    [][\A c \in AllCallers :
        /\ (/\ UnderwritingSucceeds(c)
            /\ calls'[c].state.application_status = "approved"
            /\ calls'[c].state.approved_amount # None
            /\ Val(calls'[c].state.approved_amount) > UnitCustomer(c).pre_approved_limit)
              => /\ calls[c].state.salary_slip_uploaded
                 /\ UnitCustomer(c).credit_score >= 700
                 /\ Val(calls'[c].state.approved_amount)
                        <= 2 * UnitCustomer(c).pre_approved_limit
                 /\ 2 * UnitTotalEmi(c) <= UnitSalary(c)
        /\ (/\ calls'[c].state.application_status = "approved"
            /\ calls'[c].state.approved_amount # None
            /\ Val(calls'[c].state.approved_amount)
                   > get_customer_by_id(calls'[c].state.customer_id).pre_approved_limit)
              => calls'[c].state.salary_slip_uploaded
      ]_vars

(* C29 witness: an amount above the pre-approved limit approved on a       *)
(* verified salary                                                         *)
C29_Witness ==
    \E c \in AllCallers :
        /\ calls[c].last = "underwriting_agent"
        /\ calls[c].state.customer_id = "CUST001"
        /\ calls[c].state.requested_amount = Some(900)
        /\ calls[c].state.salary_slip_uploaded
        /\ calls[c].state.application_status = "approved"
        /\ calls[c].state.approved_amount = Some(900)

(* the sanction node has succeeded on the record of c and returned to the  *)
(* master node                                                             *)
SanctionJustSucceeded(c) ==
    /\ calls[c].pc = "master_agent"
    /\ calls[c].last = "sanction_agent"
    /\ Last(calls[c].state.conversation_history).agent = "sanction"

(* the record is a sanctioned one whose last entry is the sanction message *)
Sanctioned(state) ==
    /\ state.current_stage = "closure"
    /\ state.application_status = "approved"
    /\ state.approved_amount # None
    /\ state.sanction_letter_ref_no # "None"
    /\ state.sanction_letter_url # "None"
    /\ Last(state.conversation_history)
           = [role |-> "assistant", content |-> "sanction_message", agent |-> "sanction"]

(* C30: after a successful sanction step the master node returns the       *)
(* record as it is and the router ends the loop; an invocation that has    *)
(* dispatched sanction and ended has dispatched it once and no other       *)
(* worker, and what it persists and returns is the sanctioned record:      *)
(* closure, approved, both sanction fields set, the sanction message last  *)
(* in the history and as the response.                                     *)
C30_SanctionTerminal ==
    [][\A c \in AllCallers :
        /\ SanctionJustSucceeded(c)
              => /\ Sanctioned(calls[c].state)
                 /\ calls'[c].pc = "END"
                 /\ calls'[c].state = calls[c].state
        /\ (calls[c].pc = "END" /\ calls[c].visits["sanction_agent"] >= 1)
              => /\ calls[c].visits = [NoVisits EXCEPT !["sanction_agent"] = 1,
                                                       !["master_agent"] = 2]
                 /\ Sanctioned(calls[c].state)
                 /\ calls'[c].pc = "returned"
                 /\ sessions'[calls[c].sid] = calls[c].state
                 /\ calls'[c].result.success
                 /\ calls'[c].result.response = "sanction_message"
                 /\ calls'[c].result.current_stage = "closure"
                 /\ calls'[c].result.application_status = "approved"
      ]_vars

(* C30 witness: process_message has returned the sanction message *)
C30_Witness ==
    \E c \in AllCallers :
        /\ calls[c].pc = "returned"
        /\ calls[c].result.response = "sanction_message"
        /\ calls[c].visits["sanction_agent"] = 1
        /\ documents >= 1
        /\ Sanctioned(sessions[calls[c].sid])

====
